---- MODULE Spec2Model ----
(***************************************************************************)
(* A model of superconsole's top-level renderer (src/src/superconsole.rs): *)
(* the emission queue, the render loop, the render cycle shared by render  *)
(* and finalize, and the Canvas bookkeeping the cycle relies on.           *)
(*                                                                         *)
(* A Line is modelled by its length (Line::len, the sum of its spans'      *)
(* lengths): the renderer looks at nothing else of a queued line.  A frame *)
(* is modelled by its number of rows.  A buffer is the sequence of the     *)
(* instructions queued into it, each a pair <<kind, argument>>.            *)
(***************************************************************************)
EXTENDS Integers, Sequences, FiniteSets, TLC

\* ---------------------------------------------------------------- bounds
\* Longest emission queue the caller builds up.
MaxQueue == 7
\* Tallest frame the root component returns.
MaxFrame == 2
\* Tallest terminal.
MaxHeight == 7
\* The count of a call's render cycles stops at this value.
MaxCycles == 3

\* ------------------------------------------------------ program constants
MINIMUM_EMIT == 5
MAX_GRAPHEME_BUFFER == 1000000

\* ------------------------------------------------------------ input sets
\* Lengths of the lines a caller emits: a short line and one so long that
\* two of them reach MAX_GRAPHEME_BUFFER exactly and a third line exceeds it.
LineLens == {1, 500000}
\* What emit is called with: one short line, or two long lines.
EmitArgs == {<<1>>, <<500000, 500000>>}
\* Option<T>: None is the empty sequence, Some(x) the sequence of x alone.
None == <<>>
Some(x) == <<x>>
unwrap(o) == o[1]
\* What terminal::size() returns: Err (None), or a height: a tiny terminal
\* or a tall one.
TermSizes == {None, Some(1), Some(MaxHeight)}
\* What the root component's draw returns: Err (None), or a frame of that
\* many rows.
DrawErr == None
DrawResults == {DrawErr} \cup {Some(f) : f \in 0..MaxFrame}

VARIABLES
    to_emit,          \* SuperConsole.to_emit: the queued lines
    canvas_len,       \* Canvas: the remembered height of the previous frame
    default_size,     \* SuperConsole.default_size: None or a fallback height
    pc,               \* "idle", or "loop" inside render's while loop
    op,               \* the operation called last
    has_rendered,     \* render's local
    anything_emitted, \* render's local
    cycles,           \* render cycles run by the last call, up to MaxCycles
    result,           \* what the last call returned: "ok", "err", or "none"
    last,             \* record of the last render cycle run since the last emit
    sink_finalized,   \* SuperConsoleOutput::finalize has been called
    final_drawn,      \* the root has been drawn in Final mode
    drawn_after_final,\* the root has been drawn again after a Final-mode draw
    shown             \* the frame rows of the buffer handed over last that
                      \* are to be redrawn: 0 after finalize and after clear

console_vars == <<to_emit, canvas_len, default_size, pc, op, has_rendered,
                  anything_emitted, cycles, result, last, sink_finalized,
                  final_drawn, drawn_after_final, shown>>

\* The non-blocking output sink (src/src/output.rs).  A buffer handed to it
\* is modelled by its number in the order of the output calls; the worker
\* writes a buffer in ChunksPerFrame write calls and then flushes.
VARIABLES
    chan,           \* the frames in the bounded channel, oldest first
    sender_alive,   \* the Sender has not been dropped
    worker,         \* the worker: "recv", "writing", "done_ok", "done_err"
    wframe,         \* the frame the worker took from the channel (0: none)
    wpos,           \* how many chunks of wframe are written
    tty,            \* the chunks written to stderr, as <<frame, chunk>>
    flushed,        \* the frames written completely and flushed, in order
    accepted,       \* the frames for which output returned Ok, in order
    fg,             \* the foreground: "idle", "sending", "joining", "finalized"
    sr,             \* what should_render returned, if it was the last call
    out,            \* record of the last output call
    fin_result      \* what the sink's finalize returned

sink_vars == <<chan, sender_alive, worker, wframe, wpos, tty, flushed,
               accepted, fg, sr, out, fin_result>>

\* Lines and the operations on them (src/src/content/line.rs).
VARIABLES
    lhs,            \* the line the operations start from
    rhs,            \* the line it is compared with
    lop,            \* the operations applied so far, in order
    larg,           \* their numeric arguments, in order
    lout            \* the line as the operations left it, or the result of ==

line_vars == <<lhs, rhs, lop, larg, lout>>

\* Layout transformers (src/src/components): one draw call at a time.
VARIABLES
    cdims,          \* the Dimensions offered to the transformer
    ckind,          \* the transformer drawn last
    cparam,         \* its fields
    cmode,          \* the DrawMode it was given
    child_calls,    \* the draw calls it made on its child, as <<dims, mode>>
    child_ret,      \* what the child's draw returned
    cout,           \* what the transformer returned
    maximum,        \* Expanding: the remembered maximum
    seen            \* the union of the Dimensions of Expanding's outputs

comp_vars == <<cdims, ckind, cparam, cmode, child_calls, child_ret, cout,
               maximum, seen>>

vars == <<console_vars, sink_vars, line_vars, comp_vars>>

\* ------------------------------------------------------------- helpers
Max(a, b) == IF a >= b THEN a ELSE b
Min(a, b) == IF a <= b THEN a ELSE b
\* usize::saturating_sub
saturating_sub(a, b) == IF a >= b THEN a - b ELSE 0

RECURSIVE SumLen(_)
SumLen(s) == IF s = <<>> THEN 0 ELSE Head(s) + SumLen(Tail(s))

\* is_big counting the lines instead of summing their lengths
is_big_count(buf) == Len(buf) > MAX_GRAPHEME_BUFFER

\* fn is_big(buf: &Lines)
is_big(buf) == SumLen(buf) > MAX_GRAPHEME_BUFFER

\* Line::render of each line of a sequence of lines
RenderLines(ls) == [i \in 1..Len(ls) |-> <<"line", ls[i]>>]
\* the rows of a frame
RenderFrame(f) == [i \in 1..f |-> <<"row", i>>]

\* LinesExt::render(&mut self, writer, limit): drains min(limit, len) lines
\* (all of them when limit is None) from the front and writes them.
LinesDrained(ls, limit) ==
    IF limit = None THEN Len(ls) ELSE Min(unwrap(limit), Len(ls))

\* Canvas::move_up: move the cursor up by the remembered height; no-op at 0.
move_up(n) == IF n = 0 THEN <<>> ELSE << <<"up", n>> >>

\* Canvas::draw: on success remember the frame's height, 0 in Final mode.
canvas_draw(n, res, mode) ==
    IF res = DrawErr THEN n
    ELSE IF mode = "Final" THEN 0 ELSE unwrap(res)

\* the limit without the MINIMUM_EMIT floor
emit_limit_no_floor(mode, queue, h, f) ==
    IF mode = "Normal" /\ ~is_big(queue)
    THEN Some(saturating_sub(h, f))
    ELSE None

\* the limit with the floor applied to the frame height instead
emit_limit_floor_frame(mode, queue, h, f) ==
    IF mode = "Normal" /\ ~is_big(queue)
    THEN Some(saturating_sub(h, Max(f, MINIMUM_EMIT)))
    ELSE None

\* the limit applied whatever the mode
emit_limit_any_mode(mode, queue, h, f) ==
    IF ~is_big(queue)
    THEN Some(Max(saturating_sub(h, f), MINIMUM_EMIT))
    ELSE None

\* the `limit` computed in render_general
emit_limit(mode, queue, h, f) ==
    IF mode = "Normal" /\ ~is_big(queue)
    THEN Some(Max(saturating_sub(h, f), MINIMUM_EMIT))
    ELSE None

\* SuperConsole::size: terminal::size(), else default_size, else Err (None).
size(term) == IF term # None THEN term ELSE default_size

\* render_general writing the frame before the emitted lines
render_general_frame_first(queue, n, mode, h, res) ==
    IF res = DrawErr
    THEN [ok |-> FALSE, buffer |-> move_up(n), to_emit |-> queue,
          canvas_len |-> canvas_draw(n, res, mode), drawn |-> <<mode>>,
          f |-> 0]
    ELSE LET f     == unwrap(res)
             limit == emit_limit(mode, queue, h, f)
             amt   == LinesDrained(queue, limit)
         IN [ok |-> TRUE,
             buffer |-> move_up(n)
                        \o RenderFrame(f)
                        \o RenderLines(SubSeq(queue, 1, amt))
                        \o << <<"clear", "FromCursorDown">> >>,
             to_emit |-> SubSeq(queue, amt + 1, Len(queue)),
             canvas_len |-> canvas_draw(n, res, mode),
             drawn |-> <<mode>>,
             f |-> f]

\* render_general drawing the root in Normal mode whatever the mode asked
render_general_draws_normal(queue, n, mode, h, res) ==
    IF res = DrawErr
    THEN [ok |-> FALSE, buffer |-> move_up(n), to_emit |-> queue,
          canvas_len |-> canvas_draw(n, res, "Normal"),
          drawn |-> <<"Normal">>, f |-> 0]
    ELSE LET f     == unwrap(res)
             limit == emit_limit(mode, queue, h, f)
             amt   == LinesDrained(queue, limit)
         IN [ok |-> TRUE,
             buffer |-> move_up(n)
                        \o RenderLines(SubSeq(queue, 1, amt))
                        \o RenderFrame(f)
                        \o << <<"clear", "FromCursorDown">> >>,
             to_emit |-> SubSeq(queue, amt + 1, Len(queue)),
             canvas_len |-> canvas_draw(n, res, "Normal"),
             drawn |-> <<"Normal">>,
             f |-> f]

\* render_general without the final Clear(FromCursorDown)
render_general_no_clear(queue, n, mode, h, res) ==
    IF res = DrawErr
    THEN [ok |-> FALSE, buffer |-> move_up(n), to_emit |-> queue,
          canvas_len |-> canvas_draw(n, res, mode), drawn |-> <<mode>>,
          f |-> 0]
    ELSE LET f     == unwrap(res)
             limit == emit_limit(mode, queue, h, f)
             amt   == LinesDrained(queue, limit)
         IN [ok |-> TRUE,
             buffer |-> move_up(n)
                        \o RenderLines(SubSeq(queue, 1, amt))
                        \o RenderFrame(f),
             to_emit |-> SubSeq(queue, amt + 1, Len(queue)),
             canvas_len |-> canvas_draw(n, res, mode),
             drawn |-> <<mode>>,
             f |-> f]

\* render_general adding the new frame's height to the remembered one
render_general_adds_height(queue, n, mode, h, res) ==
    IF res = DrawErr
    THEN [ok |-> FALSE, buffer |-> move_up(n), to_emit |-> queue,
          canvas_len |-> canvas_draw(n, res, mode), drawn |-> <<mode>>,
          f |-> 0]
    ELSE LET f     == unwrap(res)
             limit == emit_limit(mode, queue, h, f)
             amt   == LinesDrained(queue, limit)
         IN [ok |-> TRUE,
             buffer |-> move_up(n)
                        \o RenderLines(SubSeq(queue, 1, amt))
                        \o RenderFrame(f)
                        \o << <<"clear", "FromCursorDown">> >>,
             to_emit |-> SubSeq(queue, amt + 1, Len(queue)),
             canvas_len |-> n + canvas_draw(n, res, mode),
             drawn |-> <<mode>>,
             f |-> f]

\* render_general leaving the frame out of the buffer
render_general_skips_frame(queue, n, mode, h, res) ==
    IF res = DrawErr
    THEN [ok |-> FALSE, buffer |-> move_up(n), to_emit |-> queue,
          canvas_len |-> canvas_draw(n, res, mode), drawn |-> <<mode>>,
          f |-> 0]
    ELSE LET f     == unwrap(res)
             limit == emit_limit(mode, queue, h, f)
             amt   == LinesDrained(queue, limit)
         IN [ok |-> TRUE,
             buffer |-> move_up(n)
                        \o RenderLines(SubSeq(queue, 1, amt))
                        \o << <<"clear", "FromCursorDown">> >>,
             to_emit |-> SubSeq(queue, amt + 1, Len(queue)),
             canvas_len |-> canvas_draw(n, res, mode),
             drawn |-> <<mode>>,
             f |-> f]

\* render_general keeping the last line it wrote in the queue
render_general_keeps_line(queue, n, mode, h, res) ==
    IF res = DrawErr
    THEN [ok |-> FALSE, buffer |-> move_up(n), to_emit |-> queue,
          canvas_len |-> canvas_draw(n, res, mode), drawn |-> <<mode>>,
          f |-> 0]
    ELSE LET f     == unwrap(res)
             limit == emit_limit(mode, queue, h, f)
             amt   == LinesDrained(queue, limit)
         IN [ok |-> TRUE,
             buffer |-> move_up(n)
                        \o RenderLines(SubSeq(queue, 1, amt))
                        \o RenderFrame(f)
                        \o << <<"clear", "FromCursorDown">> >>,
             to_emit |-> SubSeq(queue, Max(amt, 1), Len(queue)),
             canvas_len |-> canvas_draw(n, res, mode),
             drawn |-> <<mode>>,
             f |-> f]

\* SuperConsole::render_general(buffer, state, mode, size) on an empty buffer:
\* the buffer built, the queue and the remembered height it leaves, and
\* whether it returned Ok.  `res` is what the root's draw returns.
render_general(queue, n, mode, h, res) ==
    IF res = DrawErr
    THEN [ok |-> FALSE, buffer |-> move_up(n), to_emit |-> queue,
          canvas_len |-> canvas_draw(n, res, mode), drawn |-> <<mode>>,
          f |-> 0]
    ELSE LET f     == unwrap(res)
             limit == emit_limit(mode, queue, h, f)
             amt   == LinesDrained(queue, limit)
         IN [ok |-> TRUE,
             buffer |-> move_up(n)
                        \o RenderLines(SubSeq(queue, 1, amt))
                        \o RenderFrame(f)
                        \o << <<"clear", "FromCursorDown">> >>,
             to_emit |-> SubSeq(queue, amt + 1, Len(queue)),
             canvas_len |-> canvas_draw(n, res, mode),
             drawn |-> <<mode>>,
             f |-> f]

\* the value of `last` before any cycle has run
\* (mode: the mode of the cycle; outcome: "ok" or the stage that failed;
\* h: the terminal height used; drawn: the modes the root was drawn in;
\* f: the rows of the frame drawn; pre_emit, pre_len: to_emit and canvas_len
\* before the cycle; sent: the buffers handed to send_to_tty)
NoCycle == [mode |-> "none", outcome |-> "none", h |-> 0, drawn |-> <<>>,
            f |-> 0, pre_emit |-> <<>>, pre_len |-> 0, sent |-> <<>>]

\* render_with_mode sending the buffer although render_general failed
render_with_mode_sends_on_err(mode, term, res, wok) ==
    LET sz == size(term)
        h == unwrap(sz)
        base == [mode |-> mode, pre_emit |-> to_emit, pre_len |-> canvas_len]
    IN IF sz = None
       THEN [rec |-> base @@ [outcome |-> "size_err", h |-> 0, f |-> 0,
                              drawn |-> <<>>, sent |-> <<>>],
             to_emit |-> to_emit, canvas_len |-> canvas_len]
       ELSE LET g == render_general(to_emit, canvas_len, mode, h, res)
            IN IF ~g.ok
               THEN [rec |-> base @@ [outcome |-> "draw_err", h |-> h,
                                      f |-> 0, drawn |-> g.drawn,
                                      sent |-> << g.buffer >>],
                     to_emit |-> g.to_emit, canvas_len |-> g.canvas_len]
               ELSE [rec |-> base @@ [outcome |-> IF wok THEN "ok"
                                                  ELSE "write_err",
                                      h |-> h, f |-> g.f,
                                      drawn |-> g.drawn,
                                      sent |-> << g.buffer >>],
                     to_emit |-> g.to_emit, canvas_len |-> g.canvas_len]

\* SuperConsole::render_with_mode(state, mode): one render cycle.
\* term: what terminal::size() gives (None = Err); res: what the root's draw
\* returns; wok: whether send_to_tty succeeds.  Yields the cycle's record
\* and the state it leaves.
render_with_mode(mode, term, res, wok) ==
    LET sz == size(term)
        h == unwrap(sz)
        base == [mode |-> mode, pre_emit |-> to_emit, pre_len |-> canvas_len]
    IN IF sz = None
       THEN [rec |-> base @@ [outcome |-> "size_err", h |-> 0, f |-> 0,
                              drawn |-> <<>>, sent |-> <<>>],
             to_emit |-> to_emit, canvas_len |-> canvas_len]
       ELSE LET g == render_general(to_emit, canvas_len, mode, h, res)
            IN IF ~g.ok
               THEN [rec |-> base @@ [outcome |-> "draw_err", h |-> h,
                                      f |-> 0, drawn |-> g.drawn,
                                      sent |-> <<>>],
                     to_emit |-> g.to_emit, canvas_len |-> g.canvas_len]
               ELSE [rec |-> base @@ [outcome |-> IF wok THEN "ok"
                                                  ELSE "write_err",
                                      h |-> h, f |-> g.f,
                                      drawn |-> g.drawn,
                                      sent |-> << g.buffer >>],
                     to_emit |-> g.to_emit, canvas_len |-> g.canvas_len]

\* what a cycle adds to the history of the session's draws
record_cycle(rec) ==
    /\ final_drawn' = (final_drawn \/ rec.drawn = <<"Final">>)
    /\ drawn_after_final' = (drawn_after_final
                              \/ (final_drawn /\ rec.drawn # <<>>))
    /\ shown' = IF rec.sent = <<>> THEN shown
                ELSE IF rec.mode = "Final" THEN 0
                ELSE Len(SelectSeq(rec.sent[1], LAMBDA x : x[1] = "row"))

no_cycle == UNCHANGED <<final_drawn, drawn_after_final, shown>>

\* the value of `out` before any output call
NoOutput == [frame |-> 0, sr |-> "none", blocked |-> FALSE, res |-> "none"]

InitSinkVars ==
    /\ chan = <<>>
    /\ sender_alive = TRUE
    /\ worker = "recv"
    /\ wframe = 0
    /\ wpos = 0
    /\ tty = <<>>
    /\ flushed = <<>>
    /\ accepted = <<>>
    /\ fg = "idle"
    /\ sr = "none"
    /\ out = NoOutput
    /\ fin_result = "none"

InitLineVars ==
    /\ lhs = <<>>
    /\ rhs = <<>>
    /\ lop = <<>>
    /\ larg = <<>>
    /\ lout = <<>>

\* Dimensions
Dim(w, h) == [width |-> w, height |-> h]

\* the value of child_ret and cout before any draw
NoDraw == [ok |-> FALSE, lines |-> <<>>, err |-> "none"]

\* no transformer drawn yet; Expanding::new: maximum: Cell::default()
InitCompState ==
    /\ ckind = "none"
    /\ cparam = <<>>
    /\ cmode = "none"
    /\ child_calls = <<>>
    /\ child_ret = NoDraw
    /\ cout = NoDraw
    /\ maximum = Dim(0, 0)
    /\ seen = Dim(0, 0)

InitCompVars ==
    /\ cdims = Dim(0, 0)
    /\ InitCompState

\* ------------------------------------------------------------- actions
InitConsole ==
    /\ to_emit = <<>>
    /\ canvas_len = 0
    /\ pc = "idle"
    /\ op = "none"
    /\ has_rendered = FALSE
    /\ anything_emitted = TRUE
    /\ cycles = 0
    /\ result = "none"
    /\ last = NoCycle
    /\ sink_finalized = FALSE
    /\ final_drawn = FALSE
    /\ drawn_after_final = FALSE
    /\ shown = 0

Init ==
    /\ InitConsole
    /\ default_size \in {None, Some(1)}
    /\ InitSinkVars
    /\ InitLineVars
    /\ InitCompVars

\* emit putting the lines at the front of the queue
emit_prepends ==
    /\ pc = "idle"
    /\ \E lines \in EmitArgs :
          /\ Len(to_emit) + Len(lines) <= MaxQueue
          /\ to_emit' = lines \o to_emit
    /\ op' = "emit"
    /\ result' = "ok"
    /\ cycles' = 0
    /\ last' = NoCycle
    /\ no_cycle
    /\ UNCHANGED <<canvas_len, default_size, pc, has_rendered,
                   anything_emitted, sink_finalized>>
    /\ UNCHANGED <<sink_vars, line_vars, comp_vars>>

\* SuperConsole::emit(lines)
emit ==
    /\ pc = "idle"
    /\ \E lines \in EmitArgs :
          /\ Len(to_emit) + Len(lines) <= MaxQueue
          /\ to_emit' = to_emit \o lines
    /\ op' = "emit"
    /\ result' = "ok"
    /\ cycles' = 0
    /\ last' = NoCycle
    /\ no_cycle
    /\ UNCHANGED <<canvas_len, default_size, pc, has_rendered,
                   anything_emitted, sink_finalized>>
    /\ UNCHANGED <<sink_vars, line_vars, comp_vars>>

\* SuperConsole::render(state): entry, up to the first test of the loop
render ==
    /\ pc = "idle"
    /\ pc' = "loop"
    /\ op' = "render"
    /\ has_rendered' = FALSE
    /\ anything_emitted' = TRUE
    /\ cycles' = 0
    /\ result' = "none"
    /\ no_cycle
    /\ UNCHANGED <<to_emit, canvas_len, default_size, last, sink_finalized>>
    /\ UNCHANGED <<sink_vars, line_vars, comp_vars>>

\* SuperConsole::emit_now(lines, state): emit, then enter render
emit_now ==
    /\ pc = "idle"
    /\ \E lines \in EmitArgs :
          /\ Len(to_emit) + Len(lines) <= MaxQueue
          /\ to_emit' = to_emit \o lines
    /\ pc' = "loop"
    /\ op' = "emit_now"
    /\ has_rendered' = FALSE
    /\ anything_emitted' = TRUE
    /\ cycles' = 0
    /\ result' = "none"
    /\ last' = NoCycle
    /\ no_cycle
    /\ UNCHANGED <<canvas_len, default_size, sink_finalized>>
    /\ UNCHANGED <<sink_vars, line_vars, comp_vars>>

\* the condition of render's while loop
loop_cond == ~has_rendered \/ (anything_emitted /\ to_emit # <<>>)

\* one iteration of render's while loop, with the given cycle outcome
render_iteration(term, res, wok) ==
    /\ pc = "loop"
    /\ loop_cond
    /\ LET c == render_with_mode("Normal", term, res, wok)
           last_len == Len(to_emit)
       IN /\ last' = c.rec
          /\ record_cycle(c.rec)
          /\ to_emit' = c.to_emit
          /\ canvas_len' = c.canvas_len
          /\ cycles' = Min(cycles + 1, MaxCycles)
          /\ IF c.rec.outcome = "ok"
             THEN /\ anything_emitted' = (last_len = Len(c.to_emit))
                  /\ has_rendered' = TRUE
                  /\ pc' = "loop"
                  /\ result' = "none"
             ELSE \* the `?` returns the error
                  /\ anything_emitted' = TRUE
                  /\ has_rendered' = FALSE
                  /\ pc' = "idle"
                  /\ result' = "err"
    /\ UNCHANGED <<default_size, op, sink_finalized>>
    /\ UNCHANGED <<sink_vars, line_vars, comp_vars>>

render_cycle ==
    \E term \in TermSizes, res \in DrawResults,
       wok \in BOOLEAN : render_iteration(term, res, wok)

\* render's loop ends and render returns Ok(())
render_return ==
    /\ pc = "loop"
    /\ ~loop_cond
    /\ pc' = "idle"
    /\ result' = "ok"
    /\ has_rendered' = FALSE
    /\ anything_emitted' = TRUE
    /\ no_cycle
    /\ UNCHANGED <<to_emit, canvas_len, default_size, op, cycles, last,
                   sink_finalized>>
    /\ UNCHANGED <<sink_vars, line_vars, comp_vars>>

\* SuperConsole::finalize(state), with the given cycle outcome
finalize_call(term, res, wok) ==
    /\ pc = "idle"
    /\ LET c == render_with_mode("Final", term, res, wok)
       IN /\ last' = c.rec
          /\ record_cycle(c.rec)
          /\ to_emit' = c.to_emit
          /\ canvas_len' = c.canvas_len
          /\ result' = IF c.rec.outcome = "ok" THEN "ok" ELSE "err"
    /\ op' = "finalize"
    /\ cycles' = 1
    /\ UNCHANGED <<default_size, pc, has_rendered, anything_emitted,
                   sink_finalized>>
    /\ UNCHANGED <<sink_vars, line_vars, comp_vars>>

\* SuperConsole::finalize(state)
finalize ==
    \E term \in TermSizes, res \in DrawResults, wok \in BOOLEAN :
        finalize_call(term, res, wok)

Next ==
    \/ emit
    \/ render
    \/ emit_now
    \/ render_cycle
    \/ render_return
    \/ finalize

Spec == Init /\ [][Next]_vars

\* ------------------------------------------------- draining specification
\* The queues emit calls can build from an empty queue.
RECURSIVE EmitQueues(_)
EmitQueues(n) ==
    IF n = 0 THEN {<<>>}
    ELSE LET prev == EmitQueues(n - 1)
         IN prev \cup {q \o a : q \in {x \in prev : Len(x) < MaxQueue},
                                a \in {y \in EmitArgs : Len(y) <= MaxQueue}}

InitDrain ==
    /\ to_emit \in {q \in EmitQueues(MaxQueue) : Len(q) <= MaxQueue}
    /\ canvas_len \in 0..MaxFrame
    /\ default_size \in {None, Some(1)}
    /\ pc = "idle"
    /\ op = "none"
    /\ has_rendered = FALSE
    /\ anything_emitted = TRUE
    /\ cycles = 0
    /\ result = "none"
    /\ last = NoCycle
    /\ sink_finalized = FALSE
    /\ final_drawn = FALSE
    /\ drawn_after_final = FALSE
    /\ shown = canvas_len
    /\ InitSinkVars
    /\ InitLineVars
    /\ InitCompVars

\* an iteration of render's loop in which no stage fails
render_cycle_ok ==
    \E term \in {t \in TermSizes : size(t) # None},
       res \in DrawResults \ {DrawErr} : render_iteration(term, res, TRUE)

\* render is called again and again, nothing is emitted, nothing fails
NextDrain ==
    \/ render
    \/ render_cycle_ok
    \/ render_return

SpecDrain == InitDrain /\ [][NextDrain]_vars /\ WF_vars(NextDrain)

\* ----------------------------------------------- round-trip specification
\* finalize right after a render that returned Ok, with a root that collapses
\* to an empty frame in Final mode (Echo with collapse), nothing failing
finalize_collapsed ==
    /\ op = "render" /\ result = "ok"
    /\ \E term \in {t \in TermSizes : size(t) # None} :
          finalize_call(term, Some(0), TRUE)

\* successful Normal renders, then one finalize that ends the session
NextRoundTrip ==
    \/ (~final_drawn /\ emit)
    \/ (~final_drawn /\ render)
    \/ render_cycle_ok
    \/ render_return
    \/ (~final_drawn /\ finalize_collapsed)

SpecRoundTrip == Init /\ [][NextRoundTrip]_vars

\* ------------------------------------------------------------- claims
\* what the last cycle did
CycleRan == last.mode # "none"
CycleOk == last.outcome = "ok"
\* the lines a buffer writes, in order
BufferLines(b) == SelectSeq(b, LAMBDA x : x[1] = "line")
BufferRows(b) == SelectSeq(b, LAMBDA x : x[1] = "row")
Removed == Len(last.pre_emit) - Len(to_emit)

\* C1: when render returns Ok it has run at least one cycle, and the queue
\* is empty or the last cycle removed no line from it.
C1_RenderCyclesUntilNoShrink ==
    (op = "render" /\ pc = "idle" /\ result = "ok") =>
        /\ cycles >= 1
        /\ (to_emit = <<>> \/ Len(to_emit) = Len(last.pre_emit))

\* C2: a Normal cycle on a queue of q lines that is not over the oversize
\* threshold, with terminal height h and a frame of f rows, removes exactly
\* min(q, max(h - f, 5)) lines from the front of the queue and writes them.
C2_NormalCycleFlushCount ==
    (last.mode = "Normal" /\ CycleOk /\ SumLen(last.pre_emit) <= 1000000) =>
        LET q == Len(last.pre_emit)
            room == IF last.h > last.f THEN last.h - last.f ELSE 0
            n == Min(q, Max(room, 5))
        IN /\ to_emit = SubSeq(last.pre_emit, n + 1, q)
           /\ BufferLines(last.sent[1])
                = [i \in 1..n |-> <<"line", last.pre_emit[i]>>]

C2_Witness ==
    /\ last.mode = "Normal" /\ CycleOk
    /\ SumLen(last.pre_emit) <= 1000000
    /\ Len(last.pre_emit) = 7
    /\ last.f > last.h
    /\ Len(to_emit) = 2

\* C3: with no emit and no error, repeated render calls eventually empty the
\* queue, whatever its length and the terminal height.
C3_QueueEventuallyEmpty == <>(to_emit = <<>>)

C3_Witness ==
    /\ op = "render" /\ pc = "idle" /\ result = "ok"
    /\ to_emit = <<>>
    /\ last.pre_emit # <<>>
    /\ Len(last.pre_emit) < 5
    /\ last.f > last.h

\* C4: a Normal cycle on a queue whose summed line length exceeds 1,000,000
\* flushes every queued line and leaves the queue empty.
C4_OversizeFlushedWhole ==
    (last.mode = "Normal" /\ CycleOk /\ SumLen(last.pre_emit) > 1000000) =>
        /\ to_emit = <<>>
        /\ BufferLines(last.sent[1])
             = [i \in 1..Len(last.pre_emit) |-> <<"line", last.pre_emit[i]>>]

C4_Witness ==
    /\ last.mode = "Normal" /\ CycleOk
    /\ SumLen(last.pre_emit) > 1000000
    /\ Len(last.pre_emit) > 5
    /\ last.f > last.h
    /\ to_emit = <<>>

\* C5: a successful cycle hands exactly one buffer to the sink, holding in
\* this order the cursor move to the top of the previous frame, the lines
\* flushed, the rows of the new frame, and the erase to the end of screen.
Rank(x) ==
    CASE x[1] = "up" -> 0
      [] x[1] = "line" -> 1
      [] x[1] = "row" -> 2
      [] x[1] = "clear" -> 3

C5_OneBufferInOrder ==
    (CycleRan /\ CycleOk) =>
        /\ Len(last.sent) = 1
        /\ LET b == last.sent[1]
           IN /\ \A i \in 1..Len(b) : \A j \in i + 1..Len(b) :
                     Rank(b[i]) <= Rank(b[j])
              /\ b[Len(b)] = <<"clear", "FromCursorDown">>
              /\ Cardinality({i \in 1..Len(b) : b[i][1] = "clear"}) = 1
              /\ SelectSeq(b, LAMBDA x : x[1] = "up")
                   = (IF last.pre_len = 0 THEN <<>>
                      ELSE << <<"up", last.pre_len>> >>)
              /\ Len(BufferLines(b)) = Removed
              /\ Len(BufferRows(b)) = last.f

C5_Witness ==
    /\ CycleRan /\ CycleOk
    /\ last.pre_len > 0
    /\ Removed > 0
    /\ last.f > 0
    /\ Len(last.sent[1]) = 2 + Removed + last.f

\* C6: a successful finalize has run one cycle, drawn the root once, in
\* Final mode, and left the queue empty.
C6_FinalizeFlushesAll ==
    (op = "finalize" /\ result = "ok") =>
        /\ cycles = 1
        /\ last.drawn = <<"Final">>
        /\ to_emit = <<>>
        /\ BufferLines(last.sent[1])
             = [i \in 1..Len(last.pre_emit) |-> <<"line", last.pre_emit[i]>>]

C6_Witness ==
    /\ op = "finalize" /\ result = "ok"
    /\ Len(last.pre_emit) = 7
    /\ SumLen(last.pre_emit) <= 1000000
    /\ last.f > last.h
    /\ to_emit = <<>>

\* C7: a successful finalize has notified the output sink (called the
\* sink's finalize).
C7_FinalizeNotifiesSink ==
    (op = "finalize" /\ result = "ok") => sink_finalized

\* C8: after a cycle that returned an error at any stage, the remembered
\* frame height equals its value before the cycle.
C8_ErrorKeepsHeight ==
    (CycleRan /\ ~CycleOk) => canvas_len = last.pre_len

\* C9: a cycle that fails in size acquisition or in the root's draw hands
\* nothing to the sink.
C9_NothingSentOnEarlyError ==
    (last.outcome \in {"size_err", "draw_err"}) => last.sent = <<>>

C9_Witness ==
    /\ last.outcome = "draw_err"
    /\ last.pre_len > 0
    /\ last.sent = <<>>

\* C10: after a cycle whose draw succeeded, the remembered frame height is
\* the frame's number of rows in Normal mode and 0 in Final mode.
C10_HeightAfterDraw ==
    (last.outcome \in {"ok", "write_err"}) =>
        canvas_len = (IF last.mode = "Normal" THEN last.f ELSE 0)

C10_Witness ==
    /\ last.outcome = "ok"
    /\ last.mode = "Final"
    /\ last.f > 0
    /\ last.pre_len > 0
    /\ canvas_len = 0

\* the cursor moves a buffer holds
BufferUps(b) == SelectSeq(b, LAMBDA x : x[1] = "up")

\* C11: after successful Normal renders, a finalize whose root returns an
\* empty frame in Final mode hands a buffer that moves the cursor up by the
\* row count of the last Normal frame, holds no frame row and ends with the
\* erase to the end of screen, and it leaves the remembered height at 0.
C11_CollapseErasesFrame ==
    [][(op = "render" /\ op' = "finalize" /\ result' = "ok") =>
          LET b == last'.sent[1]
          IN /\ BufferUps(b) = (IF last.f = 0 THEN <<>>
                                ELSE << <<"up", last.f>> >>)
             /\ BufferRows(b) = <<>>
             /\ b # <<>> /\ b[Len(b)] = <<"clear", "FromCursorDown">>
             /\ canvas_len' = 0]_vars

C11_Witness ==
    /\ op = "finalize" /\ result = "ok"
    /\ last.f = 0
    /\ last.pre_len = 2
    /\ last.sent[1][1] = <<"up", 2>>
    /\ canvas_len = 0

\* C12: the root is drawn in Final mode at most once and is never drawn
\* again (in Normal mode, by render or emit_now) after the Final-mode draw.
C12_FinalDrawIsTerminal == ~drawn_after_final

\* C13: emit appends the given lines, in order, at the back of the queue;
\* it draws nothing, hands nothing to the sink and leaves the remembered
\* frame height unchanged.
C13_EmitOnlyAppends ==
    [][(op' = "emit") =>
          /\ \E lines \in {<<1>>, <<500000, 500000>>} :
                /\ Len(to_emit') = Len(to_emit) + Len(lines)
                /\ SubSeq(to_emit', 1, Len(to_emit)) = to_emit
                /\ SubSeq(to_emit', Len(to_emit) + 1, Len(to_emit')) = lines
          /\ canvas_len' = canvas_len
          /\ last'.drawn = <<>> /\ last'.sent = <<>>
          /\ cycles' = 0
          /\ final_drawn' = final_drawn
          /\ drawn_after_final' = drawn_after_final]_vars

C13_Witness ==
    /\ op = "emit"
    /\ Len(to_emit) >= 3
    /\ to_emit[1] = 1 /\ to_emit[Len(to_emit)] = 500000
    /\ canvas_len > 0

\* A render call's first cycle succeeds on an empty queue, right after a
\* successful Normal cycle that also found the queue empty, with the same
\* terminal height and the same frame from the root.
RedrawStep ==
    /\ op = "render" /\ pc = "loop" /\ cycles = 0 /\ cycles' = 1
    /\ last.mode = "Normal" /\ last.outcome = "ok"
    /\ last.pre_emit = <<>> /\ to_emit = <<>>
    /\ last'.outcome = "ok"
    /\ last'.h = last.h /\ last'.f = last.f

\* C14 as stated: every such render hands a buffer identical to the previous
\* one and leaves the remembered height and the queue as they were.
C14_RedrawIdentical ==
    [][RedrawStep =>
          /\ last'.sent = last.sent
          /\ canvas_len' = canvas_len
          /\ to_emit' = to_emit]_vars

\* C14 amended: every such render leaves the remembered height and the queue
\* as they were; its buffer is identical to the previous one when the
\* previous render started from the height it drew, and otherwise differs
\* from it in the leading cursor move only.
C14_RedrawIdempotent ==
    [][RedrawStep =>
          /\ canvas_len' = canvas_len
          /\ to_emit' = to_emit
          /\ (last.pre_len = last.f => last'.sent = last.sent)
          /\ SelectSeq(last'.sent[1], LAMBDA x : x[1] # "up")
               = SelectSeq(last.sent[1], LAMBDA x : x[1] # "up")]_vars

C14_Witness ==
    /\ op = "render" /\ pc = "idle" /\ result = "ok" /\ cycles = 1
    /\ last.mode = "Normal" /\ last.outcome = "ok"
    /\ last.pre_emit = <<>>
    /\ last.pre_len = 2 /\ last.f = 2
    /\ last.sent[1] = << <<"up", 2>>, <<"row", 1>>, <<"row", 2>>,
                         <<"clear", "FromCursorDown">> >>

\* ---------------------------------------------------------------------
\* The non-blocking sink: a foreground caller, a channel and a worker.

\* bounded::<Vec<u8>>(1)
CHANNEL_CAP == 1

\* the write calls write_all needs for one frame
ChunksPerFrame == 2

\* the output calls a behaviour makes at most
MaxOutputs == 3

is_full_above_cap == Len(chan) = CHANNEL_CAP + 1

\* Sender::is_full
is_full == Len(chan) = CHANNEL_CAP

\* the worker's closure has returned, which drops the Receiver
disconnected == worker \in {"done_ok", "done_err"}

sink_untouched == UNCHANGED <<console_vars, line_vars, comp_vars>>

should_render_always ==
    /\ fg = "idle" /\ sender_alive
    /\ sr' = "true"
    /\ UNCHANGED <<chan, sender_alive, worker, wframe, wpos, tty, flushed,
                   accepted, fg, out, fin_result>>
    /\ sink_untouched

\* should_render: !self.sender.is_full()
should_render ==
    /\ fg = "idle" /\ sender_alive
    /\ sr' = IF is_full THEN "false" ELSE "true"
    /\ UNCHANGED <<chan, sender_alive, worker, wframe, wpos, tty, flushed,
                   accepted, fg, out, fin_result>>
    /\ sink_untouched

\* output: self.sender.send(buffer).  The send fails at once when the
\* Receiver is gone, puts the frame in the channel when there is room, and
\* otherwise blocks the foreground.
output ==
    /\ fg = "idle" /\ sender_alive
    /\ out.frame < MaxOutputs
    /\ LET f == out.frame + 1 IN
       IF disconnected
       THEN /\ out' = [frame |-> f, sr |-> sr, blocked |-> FALSE,
                       res |-> "err"]
            /\ UNCHANGED <<chan, accepted, fg>>
       ELSE IF ~is_full
       THEN /\ chan' = Append(chan, f)
            /\ accepted' = Append(accepted, f)
            /\ out' = [frame |-> f, sr |-> sr, blocked |-> FALSE,
                       res |-> "ok"]
            /\ UNCHANGED fg
       ELSE /\ fg' = "sending"
            /\ out' = [frame |-> f, sr |-> sr, blocked |-> TRUE,
                       res |-> "none"]
            /\ UNCHANGED <<chan, accepted>>
    /\ sr' = "none"
    /\ UNCHANGED <<sender_alive, worker, wframe, wpos, tty, flushed,
                   fin_result>>
    /\ sink_untouched

\* a blocked send returns: with an error when the Receiver has gone, with
\* Ok once the frame is in the channel
output_wake ==
    /\ fg = "sending"
    /\ \/ /\ disconnected
          /\ out' = [out EXCEPT !.res = "err"]
          /\ UNCHANGED <<chan, accepted>>
       \/ /\ ~disconnected /\ ~is_full
          /\ chan' = Append(chan, out.frame)
          /\ accepted' = Append(accepted, out.frame)
          /\ out' = [out EXCEPT !.res = "ok"]
    /\ fg' = "idle"
    /\ UNCHANGED <<sender_alive, worker, wframe, wpos, tty, flushed, sr,
                   fin_result>>
    /\ sink_untouched

worker_recv_peek ==
    /\ worker = "recv" /\ chan # <<>>
    /\ wframe' = Head(chan)
    /\ chan' = chan
    /\ wpos' = 0
    /\ worker' = "writing"
    /\ UNCHANGED <<sender_alive, tty, flushed, accepted, fg, sr, out,
                   fin_result>>
    /\ sink_untouched

\* for frame in receiver.into_iter(): the worker takes the oldest frame
worker_recv ==
    /\ worker = "recv" /\ chan # <<>>
    /\ wframe' = Head(chan)
    /\ chan' = Tail(chan)
    /\ wpos' = 0
    /\ worker' = "writing"
    /\ UNCHANGED <<sender_alive, tty, flushed, accepted, fg, sr, out,
                   fin_result>>
    /\ sink_untouched

\* handle.write_all(&frame)?: one write call; a failed one ends the worker
worker_write ==
    /\ worker = "writing" /\ wpos < ChunksPerFrame
    /\ \E ok \in BOOLEAN :
          IF ok
          THEN /\ tty' = Append(tty, <<wframe, wpos + 1>>)
               /\ wpos' = wpos + 1
               /\ UNCHANGED worker
          ELSE /\ worker' = "done_err"
               /\ UNCHANGED <<tty, wpos>>
    /\ UNCHANGED <<chan, sender_alive, wframe, flushed, accepted, fg, sr,
                   out, fin_result>>
    /\ sink_untouched

\* handle.flush()?
worker_flush ==
    /\ worker = "writing" /\ wpos = ChunksPerFrame
    /\ \E ok \in BOOLEAN :
          IF ok
          THEN /\ flushed' = Append(flushed, wframe)
               /\ worker' = "recv"
               /\ wframe' = 0
               /\ wpos' = 0
          ELSE /\ worker' = "done_err"
               /\ UNCHANGED <<flushed, wframe, wpos>>
    /\ UNCHANGED <<chan, sender_alive, tty, accepted, fg, sr, out,
                   fin_result>>
    /\ sink_untouched

\* the iteration ends when the channel is empty and the Sender dropped: Ok(())
worker_exit ==
    /\ worker = "recv" /\ chan = <<>> /\ ~sender_alive
    /\ worker' = "done_ok"
    /\ UNCHANGED <<chan, sender_alive, wframe, wpos, tty, flushed, accepted,
                   fg, sr, out, fin_result>>
    /\ sink_untouched

\* finalize, first half: drop(sender), then the foreground waits in join
sink_finalize ==
    /\ fg = "idle" /\ sender_alive
    /\ sender_alive' = FALSE
    /\ fg' = "joining"
    /\ sr' = "none"
    /\ UNCHANGED <<chan, worker, wframe, wpos, tty, flushed, accepted, out,
                   fin_result>>
    /\ sink_untouched

sink_finalize_nowait ==
    /\ fg = "joining"
    /\ fin_result' = IF worker = "done_err" THEN "err" ELSE "ok"
    /\ fg' = "finalized"
    /\ UNCHANGED <<chan, sender_alive, worker, wframe, wpos, tty, flushed,
                   accepted, sr, out>>
    /\ sink_untouched

\* finalize, second half: handle.join() returns the worker's result
sink_finalize_joined ==
    /\ fg = "joining" /\ disconnected
    /\ fin_result' = IF worker = "done_err" THEN "err" ELSE "ok"
    /\ fg' = "finalized"
    /\ UNCHANGED <<chan, sender_alive, worker, wframe, wpos, tty, flushed,
                   accepted, sr, out>>
    /\ sink_untouched

InitSink ==
    /\ InitConsole
    /\ default_size = None
    /\ InitSinkVars
    /\ InitLineVars
    /\ InitCompVars

NextSink ==
    \/ should_render
    \/ output
    \/ output_wake
    \/ worker_recv
    \/ worker_write
    \/ worker_flush
    \/ worker_exit
    \/ sink_finalize
    \/ sink_finalize_joined

SpecSink == InitSink /\ [][NextSink]_vars

\* the chunks of the frames fs, frame after frame
RECURSIVE AllChunks(_)
AllChunks(fs) ==
    IF fs = <<>> THEN <<>>
    ELSE [i \in 1..ChunksPerFrame |-> <<Head(fs), i>>] \o AllChunks(Tail(fs))

IsPrefix(a, b) == Len(a) <= Len(b) /\ a = SubSeq(b, 1, Len(a))

\* C15: an output call that directly follows a should_render that returned
\* true does not block; an output call blocks only when no should_render
\* preceded it or that one returned false.
C15_NoBlockAfterShouldRender ==
    /\ (out.sr = "true" => ~out.blocked)
    /\ (fg = "sending" => out.sr \in {"none", "false"})

C15_Witness ==
    /\ out.sr = "true" /\ out.res = "ok" /\ ~out.blocked
    /\ worker = "writing" /\ chan = <<out.frame>> /\ out.frame = 2

\* C16: when the sink's finalize has returned, the channel is closed and the
\* worker has exited; if it returned Ok every accepted buffer is written
\* whole and flushed; if a write of the worker failed it returned the error.
C16_FinalizeWaitsForWorker ==
    fg = "finalized" =>
        /\ ~sender_alive
        /\ disconnected
        /\ (fin_result = "ok" =>
               /\ flushed = accepted
               /\ tty = AllChunks(accepted))
        /\ (worker = "done_err" => fin_result = "err")

C16_Witness ==
    /\ fg = "finalized" /\ fin_result = "ok"
    /\ accepted = <<1, 2>> /\ flushed = <<1, 2>>

\* C17: what the worker has written is a prefix of the chunks of the accepted
\* buffers, buffer after buffer in the order of acceptance: no buffer is
\* written twice, out of order, or interleaved with another.
C17_WholeBuffersInOrder ==
    /\ IsPrefix(tty, AllChunks(accepted))
    /\ IsPrefix(flushed, accepted)

C17_Witness ==
    /\ flushed = <<1, 2>> /\ wframe = 3 /\ wpos = 1
    /\ tty = AllChunks(<<1, 2>>) \o << <<3, 1>> >>

\* ---------------------------------------------------------------------
\* Lines.  A Span is a run of graphemes with one style; "W" stands for a
\* grapheme two columns wide, every other grapheme is one column wide.

\* the spans a line has at most
MaxSpans == 2

\* the padding asked for at most
MaxPad == 2

\* the width asked for at most
MaxWidth == 6

Sp(content, style) == [content |-> content, style |-> style]

Spans ==
    { Sp(<<"a">>, "y"), Sp(<<"a", "a">>, "y"), Sp(<<"a">>, "r"),
      Sp(<<" ">>, "y"), Sp(<<" ">>, "r"), Sp(<<"W">>, "y") }

Lines == UNION { [1..n -> Spans] : n \in 0..MaxSpans }

\* the columns a grapheme takes
width(g) == IF g = "W" THEN 2 ELSE 1

\* Span::len: the display width of the content
RECURSIVE Span_len_of(_)
Span_len_of(content) ==
    IF content = <<>> THEN 0
    ELSE width(Head(content)) + Span_len_of(Tail(content))

Span_len(span) == Span_len_of(span.content)

\* Span::iter: the graphemes of the span, each with the style it shows in;
\* the colour of a space does not show
Span_iter(span) ==
    [i \in 1..Len(span.content) |->
        <<span.content[i],
          IF span.content[i] = " " THEN "none" ELSE span.style>>]

\* Span::padding
padding(amount) == Sp([i \in 1..amount |-> " "], "none")

\* self.0.iter().flat_map(Span::iter)
RECURSIVE flat_map_iter(_)
flat_map_iter(line) ==
    IF line = <<>> THEN <<>>
    ELSE Span_iter(Head(line)) \o flat_map_iter(Tail(line))

Line_eq_spans(l, r) == l = r

\* impl PartialEq for Line
Line_eq(l, r) == flat_map_iter(l) = flat_map_iter(r)

\* Line::len
RECURSIVE Line_len(_)
Line_len(line) ==
    IF line = <<>> THEN 0
    ELSE Span_len(Head(line)) + Line_len(Tail(line))

pad_right_in_front(line, amount) ==
    IF amount = 0 THEN line ELSE << padding(amount) >> \o line

\* Line::pad_right
pad_right(line, amount) ==
    IF amount = 0 THEN line ELSE Append(line, padding(amount))

\* Line::truncate_line, from the span at index with cur_width counted
RECURSIVE truncate_from(_, _, _, _)
truncate_from(line, index, cur_width, max_width) ==
    IF index > Len(line) THEN line
    ELSE IF cur_width >= max_width THEN SubSeq(line, 1, index - 1)
    ELSE LET word_len == Len(line[index].content) IN
         IF word_len + cur_width > max_width
         THEN SubSeq(line, 1, index - 1)
              \o << [line[index] EXCEPT !.content =
                        SubSeq(@, 1, saturating_sub(max_width, cur_width))] >>
         ELSE truncate_from(line, index + 1, cur_width + word_len, max_width)

truncate_line(line, max_width) == truncate_from(line, 1, 0, max_width)

\* Line::to_exact_width
to_exact_width(line, exact_width) ==
    LET len == Line_len(line) IN
    IF len < exact_width THEN pad_right(line, exact_width - len)
    ELSE IF len = exact_width THEN line
    ELSE truncate_line(line, exact_width)

line_untouched == UNCHANGED <<console_vars, sink_vars, comp_vars>>

\* lhs == rhs
call_eq ==
    /\ lop = <<>>
    /\ \E r \in Lines :
          /\ rhs' = r
          /\ lout' = Line_eq(lhs, r)
    /\ lop' = <<"eq">>
    /\ UNCHANGED <<lhs, larg>>
    /\ line_untouched

call_pad_right ==
    /\ lop = <<>>
    /\ \E amount \in 0..MaxPad :
          /\ lout' = pad_right(lout, amount)
          /\ larg' = <<amount>>
    /\ lop' = <<"pad_right">>
    /\ UNCHANGED <<lhs, rhs>>
    /\ line_untouched

\* truncate_line on the line as it is, fresh or padded
call_truncate_line ==
    /\ lop \in {<<>>, <<"pad_right">>}
    /\ \E max_width \in 0..MaxWidth :
          /\ lout' = truncate_line(lout, max_width)
          /\ larg' = Append(larg, max_width)
    /\ lop' = Append(lop, "truncate_line")
    /\ UNCHANGED <<lhs, rhs>>
    /\ line_untouched

call_to_exact_width ==
    /\ lop = <<>>
    /\ \E exact_width \in 0..MaxWidth :
          /\ lout' = to_exact_width(lout, exact_width)
          /\ larg' = <<exact_width>>
    /\ lop' = <<"to_exact_width">>
    /\ UNCHANGED <<lhs, rhs>>
    /\ line_untouched

InitLine ==
    /\ InitConsole
    /\ default_size = None
    /\ InitSinkVars
    /\ InitCompVars
    /\ lhs \in Lines
    /\ rhs = <<>>
    /\ lop = <<>>
    /\ larg = <<>>
    /\ lout = lhs

NextLine ==
    \/ call_eq
    \/ call_pad_right
    \/ call_truncate_line
    \/ call_to_exact_width

SpecLine == InitLine /\ [][NextLine]_vars

\* the graphemes of a line
RECURSIVE GraphemeCount(_)
GraphemeCount(line) ==
    IF line = <<>> THEN 0
    ELSE Len(Head(line).content) + GraphemeCount(Tail(line))

\* the i-th grapheme of a line with its style tag, whatever span holds it
RECURSIVE TaggedAt(_, _)
TaggedAt(line, i) ==
    LET n == Len(Head(line).content) IN
    IF i <= n THEN Span_iter(Head(line))[i]
    ELSE TaggedAt(Tail(line), i - n)

StreamsIdentical(l, r) ==
    /\ GraphemeCount(l) = GraphemeCount(r)
    /\ \A i \in 1..GraphemeCount(l) : TaggedAt(l, i) = TaggedAt(r, i)

\* the line with every two adjacent spans of one style merged into one
RECURSIVE MergeSpans(_)
MergeSpans(line) ==
    IF Len(line) < 2 THEN line
    ELSE IF line[1].style = line[2].style
    THEN MergeSpans(<< Sp(line[1].content \o line[2].content,
                          line[1].style) >>
                    \o SubSeq(line, 3, Len(line)))
    ELSE << line[1] >> \o MergeSpans(Tail(line))

C19_ExactWidth ==
    lop = <<"to_exact_width">> => Line_len(lout) = larg[1]

\* the length of L plus k was asked of the truncation that followed the
\* padding of L by k
PadThenTruncate ==
    /\ lop = <<"pad_right", "truncate_line">>
    /\ larg[2] = Line_len(lhs) + larg[1]

\* C20 as stated: padding L on the right by k and truncating the result to
\* len(L) + k gives a line equal to L.
C20_PadTruncateIsIdentity ==
    PadThenTruncate => Line_eq(lout, lhs)

\* C20 amended: padding L on the right by k and truncating the result to
\* len(L) + k gives a line equal to L followed by k unstyled spaces: the
\* truncation removes nothing, and the result equals L when k = 0.
C20_PadTruncateKeepsPadding ==
    PadThenTruncate =>
        /\ Line_eq(lout, Append(lhs, padding(larg[1])))
        /\ Line_len(lout) = Line_len(lhs) + larg[1]
        /\ (larg[1] = 0 => Line_eq(lout, lhs))

C20_Witness ==
    /\ PadThenTruncate
    /\ lhs = << Sp(<<"a", "a">>, "y"), Sp(<<"W">>, "y") >>
    /\ larg = <<2, 6>>
    /\ lout = << Sp(<<"a", "a">>, "y"), Sp(<<"W">>, "y"),
                 Sp(<<" ", " ">>, "none") >>

\* C21: truncate_line(max_width) leaves a prefix of the original grapheme
\* stream whose length is at most max_width: the spans before the cut are
\* kept as they were, the last span kept is a leading part of the original
\* one, a line no longer than max_width is unchanged, and max_width = 0
\* leaves no span.
C21_TruncateIsBoundedPrefix ==
    lop = <<"truncate_line">> =>
        LET max_width == larg[1] IN
        /\ IsPrefix(flat_map_iter(lout), flat_map_iter(lhs))
        /\ Line_len(lout) <= max_width
        /\ Len(lout) <= Len(lhs)
        /\ \A i \in 1..Len(lout) :
              /\ lout[i].style = lhs[i].style
              /\ IsPrefix(lout[i].content, lhs[i].content)
              /\ (i < Len(lout) => lout[i] = lhs[i])
        /\ (Line_len(lhs) <= max_width => lout = lhs)
        /\ (max_width = 0 => lout = <<>>)

\* ---------------------------------------------------------------------
\* Layout transformers.  A frame is a sequence of Lines; the child of a
\* transformer is any component: its draw_unchecked returns any frame,
\* whatever the Dimensions it is offered, or fails.  Aligned, Bordered and
\* Bounded keep nothing between two draws, so a behaviour draws one of them
\* once; an Expanding instance is drawn again and again.

\* the rows a child's frame has at most
MaxRows == 2

\* the largest width offered
MaxCompWidth == 4

\* the largest height offered
MaxCompHeight == 3

\* usize::MAX, as far as the model checker counts; it is only compared
usize_MAX == 2147483647

ChildRows ==
    { <<>>, << Sp(<<"a">>, "y") >>, << Sp(<<"a", "a", "a">>, "y") >>,
      << Sp(<<"W">>, "y") >> }

ChildFrames == UNION { [1..n -> ChildRows] : n \in 0..MaxRows }

Drawn(lines) == [ok |-> TRUE, lines |-> lines, err |-> "none"]

Failed(e) == [ok |-> FALSE, lines |-> <<>>, err |-> e]

\* what the child's draw_unchecked may return
ChildResults == { Failed("child") } \cup { Drawn(f) : f \in ChildFrames }

DrawModes == {"Normal", "Final"}

OfferedDims ==
    { Dim(w, h) : w \in 0..MaxCompWidth, h \in 0..MaxCompHeight }

\* Dimensions::intersect and Dimensions::union
intersect(a, b) == Dim(Min(a.width, b.width), Min(a.height, b.height))

union(a, b) == Dim(Max(a.width, b.width), Max(a.height, b.height))

\* Option::unwrap_or
unwrap_or(o, default) == IF o = None THEN default ELSE unwrap(o)

\* Line::pad_left
pad_left(line, amount) ==
    IF amount = 0 THEN line ELSE << padding(amount) >> \o line

\* LinesExt::max_line_length
RECURSIVE max_line_length(_)
max_line_length(lines) ==
    IF lines = <<>> THEN 0
    ELSE Max(Line_len(Head(lines)), max_line_length(Tail(lines)))

\* LinesExt::dimensions
dimensions(lines) == Dim(max_line_length(lines), Len(lines))

\* LinesExt::truncate_lines and truncate_lines_bottom
truncate_lines(lines, max_width) ==
    [i \in 1..Len(lines) |-> truncate_line(lines[i], max_width)]

truncate_lines_bottom(lines, max_height) ==
    SubSeq(lines, 1, Min(Len(lines), max_height))

\* LinesExt::shrink_lines_to_dimensions
shrink_lines_to_dimensions(lines, d) ==
    truncate_lines_bottom(truncate_lines(lines, d.width), d.height)

\* LinesExt::pad_lines_top and pad_lines_bottom: empty lines are added
pad_lines_top(lines, amount) == [i \in 1..amount |-> <<>>] \o lines

pad_lines_bottom(lines, amount) == lines \o [i \in 1..amount |-> <<>>]

\* LinesExt::justify: every line padded to the longest
justify(lines) ==
    [i \in 1..Len(lines) |-> to_exact_width(lines[i], max_line_length(lines))]

\* LinesExt::set_lines_to_exact_dimensions
set_lines_to_exact_dimensions(lines, d) ==
    LET rows == IF Len(lines) < d.height
                THEN pad_lines_bottom(lines, d.height - Len(lines))
                ELSE truncate_lines_bottom(lines, d.height)
    IN  [i \in 1..Len(rows) |-> to_exact_width(rows[i], d.width)]

\* Component::draw: draw_unchecked, then the frame is cut to the Dimensions
Component_draw(unchecked, d) ==
    IF unchecked.ok
    THEN Drawn(shrink_lines_to_dimensions(unchecked.lines, d))
    ELSE unchecked

comp_untouched == UNCHANGED <<console_vars, sink_vars, line_vars>>

\* Bounded::new(child, max_x, max_y) and its draw_unchecked
Bounded_draw(max_x, max_y, mode, unchecked) ==
    LET max_size == Dim(unwrap_or(max_x, usize_MAX),
                        unwrap_or(max_y, usize_MAX))
        offered == intersect(cdims, max_size)
        ret == Component_draw(unchecked, offered)
    IN  /\ ckind = "none"
        /\ ckind' = "Bounded"
        /\ cparam' = [max_x |-> max_x, max_y |-> max_y]
        /\ cmode' = mode
        /\ child_calls' = << <<offered, mode>> >>
        /\ child_ret' = ret
        /\ cout' = IF ret.ok
                   THEN Drawn(shrink_lines_to_dimensions(
                                  ret.lines, intersect(max_size, cdims)))
                   ELSE ret
        /\ UNCHANGED <<cdims, maximum, seen>>
        /\ comp_untouched

MaxSizes == {None, Some(1), Some(MaxCompWidth - 1)}

draw_Bounded ==
    \E max_x \in MaxSizes, max_y \in MaxSizes, mode \in DrawModes,
       unchecked \in ChildResults :
        Bounded_draw(max_x, max_y, mode, unchecked)

center_split_ceil(padding_needed) == (padding_needed + 1) \div 2

\* Aligned, Center: let top_pad = padding_needed / 2 (and left_pad alike)
center_split(padding_needed) == padding_needed \div 2

HorizontalAlignmentKinds ==
    { <<"Left", FALSE>>, <<"Left", TRUE>>, <<"Center">>, <<"Right">> }

VerticalAlignmentKinds == {"Top", "Center", "Bottom"}

\* Aligned::draw_unchecked after the child's draw returned frame
Aligned_place(horizontal, vertical, d, frame) ==
    LET number_of_lines == Len(frame)
        padding_needed == saturating_sub(d.height, number_of_lines)
        top_pad == center_split(padding_needed)
        placed ==
            CASE vertical = "Top" -> frame
              [] vertical = "Center" ->
                    pad_lines_bottom(pad_lines_top(frame, top_pad),
                                     padding_needed - top_pad)
              [] vertical = "Bottom" -> pad_lines_top(frame, padding_needed)
        centre(line) ==
            LET needed == saturating_sub(d.width, Line_len(line))
                left_pad == center_split(needed)
            IN  pad_right(pad_left(line, left_pad), needed - left_pad)
    IN  CASE horizontal[1] = "Left" ->
                IF horizontal[2] THEN justify(placed) ELSE placed
          [] horizontal[1] = "Center" ->
                [i \in 1..Len(placed) |-> centre(placed[i])]
          [] horizontal[1] = "Right" ->
                [i \in 1..Len(placed) |->
                    pad_left(placed[i],
                             saturating_sub(d.width, Line_len(placed[i])))]

Aligned_draw_recovers(horizontal, vertical, d, unchecked) ==
    LET ret == Component_draw(unchecked, d) IN
    Drawn(Aligned_place(horizontal, vertical, d, ret.lines))

\* Aligned::draw_unchecked, the child's draw included
Aligned_draw_unchecked(horizontal, vertical, d, unchecked) ==
    LET ret == Component_draw(unchecked, d) IN
    IF ret.ok THEN Drawn(Aligned_place(horizontal, vertical, d, ret.lines))
    ELSE ret

draw_Aligned ==
    \E horizontal \in HorizontalAlignmentKinds,
       vertical \in VerticalAlignmentKinds,
       mode \in DrawModes, unchecked \in ChildResults :
        /\ ckind = "none"
        /\ ckind' = "Aligned"
        /\ cparam' = [horizontal |-> horizontal, vertical |-> vertical]
        /\ cmode' = mode
        /\ child_calls' = << <<cdims, mode>> >>
        /\ child_ret' = Component_draw(unchecked, cdims)
        /\ cout' = Aligned_draw_unchecked(horizontal, vertical, cdims,
                                          unchecked)
        /\ UNCHANGED <<cdims, maximum, seen>>
        /\ comp_untouched

\* BorderedSpec: the default one, one with a two-row top and no left side,
\* and one with a two-column top only
BorderedSpecs ==
    { [left |-> Some(Sp(<<"|">>, "none")), right |-> Some(Sp(<<"|">>, "none")),
       top |-> Some(Sp(<<"-">>, "none")), bottom |-> Some(Sp(<<"-">>, "none"))],
      [left |-> None, right |-> Some(Sp(<<"|">>, "none")),
       top |-> Some(Sp(<<"@", "@">>, "none")),
       bottom |-> Some(Sp(<<"@">>, "none"))],
      [left |-> None, right |-> None,
       top |-> Some(Sp(<<"W">>, "none")), bottom |-> None] }

\* opt_len
opt_len(opt_word) == IF opt_word = None THEN 0 ELSE Span_len(unwrap(opt_word))

\* str::repeat
repeat(content, n) == [i \in 1..(n * Len(content)) |-> content[1]]

\* construct_vertical_padding: one line per grapheme of the padding
construct_vertical_padding(pad, w) ==
    [i \in 1..Len(pad.content) |->
        LET span == Sp(<<pad.content[i]>>, pad.style) IN
        << Sp(repeat(span.content, w \div Span_len(span)), span.style) >>]

\* Bordered::draw_unchecked; its child is Aligned { child, Left(true), Top }
Bordered_draw(border, mode, unchecked) ==
    LET new_dims ==
            Dim(saturating_sub(cdims.width,
                               opt_len(border.left) + opt_len(border.right)),
                saturating_sub(cdims.height,
                               opt_len(border.top) + opt_len(border.bottom)))
        ret == Component_draw(
                   Aligned_draw_unchecked(<<"Left", TRUE>>, "Top", new_dims,
                                          unchecked),
                   new_dims)
        sides(line) ==
            (IF border.left = None THEN <<>> ELSE << unwrap(border.left) >>)
            \o line
            \o (IF border.right = None THEN <<>> ELSE << unwrap(border.right) >>)
        walled == [i \in 1..Len(ret.lines) |-> sides(ret.lines[i])]
        topped ==
            IF border.top = None THEN walled
            ELSE construct_vertical_padding(unwrap(border.top),
                                            max_line_length(walled))
                 \o walled
        frame ==
            IF border.bottom = None THEN topped
            ELSE topped
                 \o construct_vertical_padding(unwrap(border.bottom),
                                               max_line_length(topped))
    IN  /\ ckind = "none"
        /\ ckind' = "Bordered"
        /\ cparam' = border
        /\ cmode' = mode
        /\ child_calls' = << <<new_dims, mode>> >>
        /\ child_ret' = ret
        /\ cout' = IF ret.ok THEN Drawn(frame) ELSE ret
        /\ UNCHANGED <<cdims, maximum, seen>>
        /\ comp_untouched

draw_Bordered ==
    \E border \in BorderedSpecs, mode \in DrawModes,
       unchecked \in ChildResults :
        Bordered_draw(border, mode, unchecked)

\* Expanding::draw_unchecked
Expanding_draw(mode, unchecked) ==
    LET inner == Component_draw(unchecked, cdims)
        cur_max == maximum
        new_max == union(cur_max, dimensions(inner.lines))
        frame == set_lines_to_exact_dimensions(inner.lines,
                                                intersect(new_max, cdims))
    IN  /\ ckind \in {"none", "Expanding"}
        /\ ckind' = "Expanding"
        /\ cparam' = <<>>
        /\ cmode' = mode
        /\ child_calls' = << <<cdims, mode>> >>
        /\ child_ret' = inner
        /\ IF inner.ok
           THEN /\ maximum' = new_max
                /\ cout' = Drawn(frame)
                /\ seen' = union(seen, dimensions(frame))
           ELSE /\ cout' = inner
                /\ UNCHANGED <<maximum, seen>>
        /\ UNCHANGED cdims
        /\ comp_untouched

draw_Expanding ==
    \E mode \in DrawModes, unchecked \in ChildResults :
        Expanding_draw(mode, unchecked)

InitComp ==
    /\ InitConsole
    /\ default_size = None
    /\ InitSinkVars
    /\ InitLineVars
    /\ InitCompState
    /\ cdims \in OfferedDims

NextComp ==
    \/ draw_Bounded
    \/ draw_Aligned
    \/ draw_Bordered
    \/ draw_Expanding

SpecComp == InitComp /\ [][NextComp]_vars

\* the limit a maximum imposes: none when it is missing
limit_of(o, offered) == IF o = None THEN offered ELSE Min(unwrap(o), offered)

\* C22: Bounded's frame has at most min(max_height, offered height) rows,
\* every row has length at most min(max_width, offered width), a missing
\* maximum imposing no limit, and the child is offered that same bound.
C22_BoundedFits ==
    (ckind = "Bounded" /\ cout.ok) =>
        LET w == limit_of(cparam.max_x, cdims.width)
            h == limit_of(cparam.max_y, cdims.height)
        IN  /\ Len(cout.lines) <= h
            /\ \A i \in 1..Len(cout.lines) : Line_len(cout.lines[i]) <= w
            /\ child_calls = << <<Dim(w, h), cmode>> >>

\* floor(D/2) and ceil(D/2)
Floor2(D) == CHOOSE k \in 0..D : 2 * k <= D /\ D < 2 * k + 2

Ceil2(D) == D - Floor2(D)

\* a row showing nothing but spaces
IsBlank(line) ==
    \A i \in 1..GraphemeCount(line) : TaggedAt(line, i)[1] = " "

\* C23: with vertical Center a child frame of r rows under offered height h
\* gets floor(D/2) blank rows on top and ceil(D/2) at the bottom, D = h - r
\* saturating at 0; with horizontal Center every row gets floor(D/2) spaces
\* on its left and ceil(D/2) on its right, D being that row's width deficit.
C23_CenterSplitsDeficit ==
    (ckind = "Aligned" /\ cout.ok) =>
        LET r == Len(child_ret.lines)
            D == saturating_sub(cdims.height, r)
            top == CASE cparam.vertical = "Top" -> 0
                     [] cparam.vertical = "Center" -> Floor2(D)
                     [] cparam.vertical = "Bottom" -> D
            placed(i) == IF i > top /\ i <= top + r
                         THEN child_ret.lines[i - top] ELSE <<>>
            deficit(i) == saturating_sub(cdims.width, Line_len(placed(i)))
        IN  /\ cparam.vertical = "Center" =>
                  /\ Len(cout.lines) = Floor2(D) + r + Ceil2(D)
                  /\ \A i \in 1..Floor2(D) : IsBlank(cout.lines[i])
                  /\ \A i \in 1..Ceil2(D) :
                        IsBlank(cout.lines[Floor2(D) + r + i])
            /\ cparam.horizontal = <<"Center">> =>
                  \A i \in 1..Len(cout.lines) :
                      Line_eq(cout.lines[i],
                              << padding(Floor2(deficit(i))) >> \o placed(i)
                              \o << padding(Ceil2(deficit(i))) >>)
            /\ cparam.horizontal = <<"Left", FALSE>> =>
                  \A i \in 1..Len(cout.lines) : cout.lines[i] = placed(i)

C23_Witness ==
    /\ ckind = "Aligned" /\ cout.ok
    /\ cparam = [horizontal |-> <<"Center">>, vertical |-> "Center"]
    /\ cdims = Dim(4, 3)
    /\ child_ret.lines = << << Sp(<<"a">>, "y") >>, << Sp(<<"a">>, "y") >> >>
    /\ cout.lines = << << padding(1), Sp(<<"a">>, "y"), padding(2) >>,
                       << padding(1), Sp(<<"a">>, "y"), padding(2) >>,
                       << padding(2), padding(2) >> >>

\* the rows a border span gives: one per grapheme
border_rows(opt_word) ==
    IF opt_word = None THEN 0 ELSE Len(unwrap(opt_word).content)

\* C24: Bordered's output is a rectangle that fits the offered Dimensions;
\* the child is offered the width less the left and right borders and the
\* height less the top and bottom borders, saturating at 0; the child's rows,
\* justified to one width, sit between the left and right border spans;
\* there is one top (bottom) row per grapheme of the top (bottom) span, each
\* as wide as the wrapped rows.
C24_BorderedRectangle ==
    (ckind = "Bordered" /\ cout.ok) =>
        LET t == border_rows(cparam.top)
            b == border_rows(cparam.bottom)
            n == Len(cout.lines)
            inner_w == saturating_sub(cdims.width,
                           opt_len(cparam.left) + opt_len(cparam.right))
            inner_h == saturating_sub(cdims.height,
                           opt_len(cparam.top) + opt_len(cparam.bottom))
            wrapped_w == opt_len(cparam.left) + max_line_length(child_ret.lines)
                         + opt_len(cparam.right)
        IN  /\ child_calls = << <<Dim(inner_w, inner_h), cmode>> >>
            /\ n = t + Len(child_ret.lines) + b
            /\ n <= cdims.height
            /\ \A i \in 1..n : Line_len(cout.lines[i]) <= cdims.width
            /\ \A i \in 1..Len(child_ret.lines) :
                  /\ Line_len(cout.lines[t + i]) = wrapped_w
                  /\ Line_eq(cout.lines[t + i],
                        (IF cparam.left = None THEN <<>>
                         ELSE << unwrap(cparam.left) >>)
                        \o child_ret.lines[i]
                        \o (IF cparam.right = None THEN <<>>
                            ELSE << unwrap(cparam.right) >>))
            /\ Len(child_ret.lines) > 0 =>
                  \A i \in (1..t) \cup ((n - b + 1)..n) :
                      Line_len(cout.lines[i]) = wrapped_w

\* C25: every output of an Expanding instance drawn with the same offered
\* Dimensions has at least the rows and the width of each earlier output of
\* the instance, and the remembered maximum never decreases.
C25_ExpandingNeverShrinks ==
    [][(ckind' = "Expanding" /\ cout'.ok) =>
          /\ Len(cout'.lines) >= seen.height
          /\ max_line_length(cout'.lines) >= seen.width
          /\ maximum'.height >= maximum.height
          /\ maximum'.width >= maximum.width]_vars

\* the frames the sink holds: those in the channel and the one being written
Buffered == Len(chan) + (IF worker = "writing" THEN 1 ELSE 0)

C27_ChildDrawnOnceErrorsPropagate ==
    ckind \in {"Aligned", "Bordered", "Bounded", "Expanding"} =>
        /\ Len(child_calls) = 1
        /\ child_calls[1][2] = cmode
        /\ (~child_ret.ok =>
               /\ ~cout.ok
               /\ cout.err = child_ret.err
               /\ cout.lines = <<>>)
        /\ (child_ret.ok => cout.ok)

C27_Witness ==
    /\ ckind = "Bordered" /\ cmode = "Final"
    /\ child_calls = << <<Dim(2, 1), "Final">> >>
    /\ ~child_ret.ok
    /\ cout = Failed("child")

\* ---------------------------------------------------------------------
\* The console with clear, every write succeeding.

\* SuperConsole::clear: Canvas::clear moves to the top of the frame, erases
\* from there and forgets the frame's height; send_to_tty then writes the
\* buffer, which holds no frame row
clear(wok) ==
    /\ pc = "idle"
    /\ canvas_len' = 0
    /\ shown' = 0
    /\ last' = [NoCycle EXCEPT
                   !.pre_emit = to_emit,
                   !.pre_len = canvas_len,
                   !.sent = << move_up(canvas_len)
                               \o << <<"clear", "FromCursorDown">> >> >>]
    /\ op' = "clear"
    /\ cycles' = 0
    /\ result' = IF wok THEN "ok" ELSE "err"
    /\ UNCHANGED <<to_emit, default_size, pc, has_rendered, anything_emitted,
                   sink_finalized, final_drawn, drawn_after_final>>
    /\ UNCHANGED <<sink_vars, line_vars, comp_vars>>

\* a clear whose write succeeds
clear_written == clear(TRUE)

\* a render cycle and a finalize whose write succeeds
render_cycle_written ==
    \E term \in TermSizes, res \in DrawResults :
        render_iteration(term, res, TRUE)

finalize_written ==
    \E term \in TermSizes, res \in DrawResults :
        finalize_call(term, res, TRUE)

NextWritten ==
    \/ emit
    \/ render
    \/ emit_now
    \/ render_cycle_written
    \/ render_return
    \/ finalize_written
    \/ clear_written

SpecWritten == Init /\ [][NextWritten]_vars

\* the step is a render cycle or a finalize cycle
CycleStep ==
    \/ pc = "loop" /\ loop_cond
    \/ pc = "idle" /\ op' = "finalize"

\* the rows a buffer moves the cursor up at its start
UpRows(b) == IF BufferUps(b) = <<>> THEN 0 ELSE BufferUps(b)[1][2]

\* C28: with every write succeeding, a cycle moves the cursor up by the
\* number of frame rows of the buffer handed to the sink last, 0 before the
\* first render, after clear and after finalize; the remembered height is
\* that number after every step.
C28_MoveUpMatchesLastFrame ==
    [][/\ canvas_len' = shown'
       /\ (CycleStep /\ last'.sent # <<>>) =>
              /\ UpRows(last'.sent[1]) = shown
              /\ Len(BufferUps(last'.sent[1])) <= 1
       /\ op' = "clear" =>
              /\ canvas_len' = 0
              /\ UpRows(last'.sent[1]) = shown
       /\ (op' = "finalize" /\ last'.outcome = "ok") => canvas_len' = 0
      ]_vars

C28_Witness ==
    /\ op = "render" /\ last.mode = "Normal" /\ last.outcome = "ok"
    /\ last.pre_len = 2 /\ UpRows(last.sent[1]) = 2
    /\ last.f = 1 /\ shown = 1 /\ canvas_len = 1

\* the emitted lines a cycle's buffer holds
HandedLines(rec) ==
    IF rec.sent = <<>> THEN <<>>
    ELSE LET ls == BufferLines(rec.sent[1])
         IN  [i \in 1..Len(ls) |-> ls[i][2]]

\* C29: no queued line is dropped, duplicated or reordered.  Every step keeps
\* the concatenation whole: the lines in the buffer a cycle hands to the
\* sink, followed by the queue it leaves, are the queue it found; an emit
\* leaves the queue it found followed by its lines; no other step touches
\* the queue.  Both sides being empty at first, the lines of all buffers
\* handed over followed by the queue are always the lines emitted, in order.
C29_NoLineLost ==
    [][IF pc = "idle" /\ op' \in {"emit", "emit_now"}
       THEN \E lines \in EmitArgs : to_emit' = to_emit \o lines
       ELSE IF CycleStep
       THEN HandedLines(last') \o to_emit' = to_emit
       ELSE to_emit' = to_emit]_vars

C29_Witness ==
    /\ last.mode = "Normal" /\ last.outcome = "write_err"
    /\ Len(last.pre_emit) = 7
    /\ Len(HandedLines(last)) = 5
    /\ Len(to_emit) = 2
====
